---- MODULE Spec2Model ----
(***************************************************************************)
(* Pasm (src/pasm.c): a single-pass x86-64 assembler writing an ELF64      *)
(* relocatable object.  The model follows one run of assemble_x86_64:      *)
(* default_symtabs_x86_64, the statement loop of parse_x86_64 (one action  *)
(* per kind of statement, each including the lex calls it makes), the ELF  *)
(* header, default_shdrtabs_x86_64, write_file_x86_64 and the return.      *)
(*                                                                         *)
(* The source text is a sequence of one-character strings; the cursor      *)
(* unit->i is 0-based as in C, so src[i] of the C code is CharAt(i).       *)
(***************************************************************************)
EXTENDS Integers, Sequences, FiniteSets, TLC

VARIABLES
    stmts,      \* the lines the source text was put together from (input)
    src,        \* unit.src without its terminating NUL
    behind,     \* the bytes of memory that follow the terminating NUL
    i,          \* unit.i
    token,      \* parse_x86_64's token
    stmtTok,    \* the token buff was copied from at the top of the loop
    obj,        \* elf64_obj_t obj (ehdr inlined)
    raw_obj,    \* write_file_x86_64's raw_obj, as the chunks memcpy'd into it
    raw_obj_len,
    written,    \* fwrite has put raw_obj into the output file
    err,        \* the last diagnostic printed on stderr
    parse_rv,   \* value returned by parse_x86_64
    ret,        \* value returned by assemble_x86_64
    heap,       \* the blocks malloc has handed out and free has not taken back
    out,        \* write_file_x86_64's fd, and the handle fwrite was called on
    pc

vars == <<stmts, src, behind, i, token, stmtTok, obj, raw_obj, raw_obj_len, written,
          err, parse_rv, ret, heap, out, pc>>

(***************************************************************************)
(* Bounds of the model.                                                    *)
(***************************************************************************)
MaxStmts == 3       \* lines of a mixed source
MaxCodeStmts == 5   \* lines of an instruction-only source
MaxLexStmts == 3    \* lines of a source of the lexical cases
MaxEndStmts == 1    \* lines before the last line of a source cut short
MaxLexCalls == 3    \* calls of lex looked at in a row

(***************************************************************************)
(* Characters.                                                             *)
(***************************************************************************)
NUL == "NUL"        \* the terminating '\0' of unit.src
OOB == "OOB"        \* a byte behind the NUL that is no character of the syntax
NL  == "\n"

Lower == {"a","b","c","d","e","f","g","h","i","j","k","l","m",
          "n","o","p","q","r","s","t","u","v","w","x","y","z"}
Upper == {"A","B","C","D","E","F","G","H","I","J","K","L","M",
          "N","O","P","Q","R","S","T","U","V","W","X","Y","Z"}
Digit == {"0","1","2","3","4","5","6","7","8","9"}

isblank(c) == c \in {" ", "\t"}
isalpha(c) == c \in Lower \cup Upper
isalnum(c) == c \in Lower \cup Upper \cup Digit

\* unit->src[k]: src is malloc'd with st_size + 1 bytes (line 101), so an
\* index above Len(src) reads memory that is not part of the buffer
CharAt(k) ==
    IF k < Len(src) THEN src[k + 1]
    ELSE IF k = Len(src) THEN NUL
    ELSE IF k - Len(src) <= Len(behind) THEN behind[k - Len(src)]
    ELSE OOB

(***************************************************************************)
(* Token kinds and tokens.                                                 *)
(***************************************************************************)
ID        == "Identifier"
LABEL     == "Label"
DIRECTIVE == "Directive"
CONSTANT_ == "Constant"    \* enum CONSTANT (a reserved word here)
REGISTER  == "Register"
COMMA     == "Comma"
NEWLINE   == "NewLine"
ENDOFFILE == "EndOfFile"

NoToken == [type |-> "none", len |-> 0, start |-> 0]

\* memcpy(buff, unit->src + token.start, token.len); buff[token.len] = '\0'
TokenText(t) == [k \in 1..t.len |-> CharAt(t.start + k - 1)]

(***************************************************************************)
(* Diagnostics.                                                            *)
(***************************************************************************)
NoErr == [kind |-> "none", text |-> <<>>]
Diag(k, t) == [kind |-> k, text |-> t]

(***************************************************************************)
(* The lexer.  Every operator returns the new cursor along with its        *)
(* result.                                                                 *)
(***************************************************************************)
RECURSIVE SkipBlank(_)
SkipBlank(k) == IF isblank(CharAt(k)) THEN SkipBlank(k + 1) ELSE k

RECURSIVE SkipToEol(_)
SkipToEol(k) == IF CharAt(k) # NL /\ CharAt(k) # NUL THEN SkipToEol(k + 1) ELSE k

\* skip_comments without the GNU assembler's // comments
skip_comments_SemiOnly(k) ==
    IF CharAt(k) = ";" THEN SkipToEol(k + 1) ELSE k

skip_comments(k) ==
    IF CharAt(k) = ";" \/ (CharAt(k) = "/" /\ CharAt(k + 1) = "/")
    THEN SkipToEol(k + 1)
    ELSE k

RECURSIVE AlnumEnd(_)
AlnumEnd(k) == IF isalnum(CharAt(k)) THEN AlnumEnd(k + 1) ELSE k

\* a lex_id that counts the character it stopped at into the token
lex_id_LenWithStop(k) ==
    LET e == AlnumEnd(k + 1)
    IN  [rv |-> 0, i |-> e,
         token |-> [type |-> ID, len |-> e - k + 1, start |-> k], err |-> NoErr]

lex_id(k) ==
    LET e == AlnumEnd(k + 1)
    IN  [rv |-> 0, i |-> e,
         token |-> [type |-> ID, len |-> e - k, start |-> k], err |-> NoErr]

\* a lex_constant that reads the constant as a token
lex_constant_Reads(k, tok) ==
    LET e == AlnumEnd(k)
    IN  [rv |-> 0, i |-> e,
         token |-> [type |-> CONSTANT_, len |-> e - k, start |-> k],
         err |-> NoErr]

lex_constant(k, tok) ==
    [rv |-> 1, i |-> k, token |-> tok,
     err |-> Diag("unimplemented_constant", <<>>)]

\* a lex that steps over the terminating NUL as it does over a newline
lex_EofConsumed(k, tok) ==
    LET p == skip_comments(SkipBlank(k))
        c == CharAt(p)
    IN  CASE c = "$" -> lex_constant(p + 1, tok)
          [] c = "%" -> LET r == lex_id(p + 1)
                        IN  [r EXCEPT !.token.type = REGISTER]
          [] c = NL  -> [rv |-> 0, i |-> p + 1,
                         token |-> [type |-> NEWLINE, len |-> 1, start |-> p],
                         err |-> NoErr]
          [] c = NUL -> [rv |-> 0, i |-> p + 1,
                         token |-> [type |-> ENDOFFILE, len |-> 1, start |-> p],
                         err |-> NoErr]
          [] OTHER ->
                IF c = "." \/ c = "_" \/ isalpha(c)
                THEN LET r == lex_id(p)
                     IN  IF CharAt(r.i) = ":"
                         THEN [r EXCEPT !.token.type = LABEL, !.i = r.i + 1]
                         ELSE IF c = "."
                         THEN [r EXCEPT !.token.type = DIRECTIVE]
                         ELSE r
                ELSE [rv |-> 1, i |-> p, token |-> tok,
                      err |-> Diag("invalid_character", <<c>>)]

\* lex(unit, token) called with cursor k and the caller's token tok
lex(k, tok) ==
    LET p == skip_comments(SkipBlank(k))
        c == CharAt(p)
    IN  CASE c = "$" -> lex_constant(p + 1, tok)
          [] c = "%" -> LET r == lex_id(p + 1)
                        IN  [r EXCEPT !.token.type = REGISTER]
          [] c = NL  -> [rv |-> 0, i |-> p + 1,
                         token |-> [type |-> NEWLINE, len |-> 1, start |-> p],
                         err |-> NoErr]
          [] c = NUL -> [rv |-> 0, i |-> p,
                         token |-> [type |-> ENDOFFILE, len |-> 1, start |-> p],
                         err |-> NoErr]
          [] OTHER ->
                IF c = "." \/ c = "_" \/ isalpha(c)
                THEN LET r == lex_id(p)
                     IN  IF CharAt(r.i) = ":"
                         THEN [r EXCEPT !.token.type = LABEL, !.i = r.i + 1]
                         ELSE IF c = "."
                         THEN [r EXCEPT !.token.type = DIRECTIVE]
                         ELSE r
                ELSE [rv |-> 1, i |-> p, token |-> tok,
                      err |-> Diag("invalid_character", <<c>>)]

(***************************************************************************)
(* String literals of the source, as character sequences.                  *)
(***************************************************************************)
S_leave   == <<"l","e","a","v","e">>
S_leaveq  == <<"l","e","a","v","e","q">>
S_nop     == <<"n","o","p">>
S_ret     == <<"r","e","t">>
S_retq    == <<"r","e","t","q">>
S_syscall == <<"s","y","s","c","a","l","l">>
S_globl   == <<".","g","l","o","b","l">>

\* static const char shstrtab[], with the terminator the literal adds
shstrtab ==
    <<NUL>> \o <<".","s","y","m","t","a","b">> \o <<NUL>> \o <<".","s","t","r","t","a","b">> \o <<NUL>>
            \o <<".","s","h","s","t","r","t","a","b">> \o <<NUL>> \o <<".","t","e","x","t">> \o <<NUL>>
            \o <<".","d","a","t","a">> \o <<NUL>> \o <<".","b","s","s">> \o <<NUL>>
            \o <<NUL, NUL, NUL, NUL>> \o <<NUL>>

(***************************************************************************)
(* Sizes and values taken from <elf.h>.                                    *)
(***************************************************************************)
SizeofEhdr == 64    \* sizeof(Elf64_Ehdr)
SizeofSym  == 24    \* sizeof(Elf64_Sym)
SizeofShdr == 64    \* sizeof(Elf64_Shdr)
STB_LOCAL   == 0
STB_GLOBAL  == 1
STT_NOTYPE  == 0
STT_SECTION == 3
SHT_PROGBITS == 1
SHT_SYMTAB   == 2
SHT_STRTAB   == 3
SHT_NOBITS   == 8
SHF_WRITE     == 1
SHF_ALLOC     == 2
SHF_EXECINSTR == 4

\* an st_info that drops the binding
ELF64_ST_INFO_NoBind(bind, type) == type % 16

\* #define ELF64_ST_INFO(bind, type) (((bind) << 4) + ((type) & 0xf))
ELF64_ST_INFO(bind, type) == bind * 16 + (type % 16)
\* #define ELF64_ST_BIND(info) ((info) >> 4)
ELF64_ST_BIND(info) == info \div 16

\* the macro without its test for an aligned X
ALIGNTO8_NoTest(X) == X + (8 - (X % 8))

\* #define ALIGNTO8(X) (X + ((8 - (X % 8)) * ((X % 8) != 0)))
ALIGNTO8(X) == X + ((8 - (X % 8)) * (IF (X % 8) # 0 THEN 1 ELSE 0))

Sym(name, info, shndx) ==
    [st_name |-> name, st_info |-> info, st_other |-> 0, st_shndx |-> shndx,
     st_value |-> 0, st_size |-> 0]

Shdr(name, type, flags, offset, size, link, info, addralign, entsize) ==
    [sh_name |-> name, sh_type |-> type, sh_flags |-> flags, sh_addr |-> 0,
     sh_offset |-> offset, sh_size |-> size, sh_link |-> link,
     sh_info |-> info, sh_addralign |-> addralign, sh_entsize |-> entsize]

NoEhdr == [e_type |-> 0, e_machine |-> 0, e_shoff |-> 0, e_ehsize |-> 0,
           e_shentsize |-> 0, e_shnum |-> 0, e_shstrndx |-> 0]

\* strlen(s)
strlen(s) == Len(s)

RECURSIVE SumLen(_, _)
\* for (i = 0; i < n; i++) strtab_len += strlen(obj->strtab[i]) + 1;
SumLen(tab, n) == IF n = 0 THEN 0 ELSE SumLen(tab, n - 1) + strlen(tab[n]) + 1

(***************************************************************************)
(* The inputs: a source text is the concatenation of a few lines.          *)
(***************************************************************************)
L_nop      == <<"n","o","p",NL>>
L_ret      == <<"\t","r","e","t"," ",";","c",NL>>
L_retq     == <<"r","e","t","q",NL>>
L_leave    == <<"l","e","a","v","e",NL>>
L_leaveq   == <<" ","l","e","a","v","e","q"," ","/","/","x",NL>>
L_syscall  == <<"s","y","s","c","a","l","l",NL>>
L_retq_eof == <<"r","e","t","q">>
L_lab_a    == <<"a",":",NL>>
L_lab_st   == <<"_","s","t","a","r","t",":",NL>>
L_glo_a    == <<".","g","l","o","b","l"," ","a",NL>>
L_glo_st   == <<".","g","l","o","b","l"," ","_","s","t","a","r","t",NL>>
L_foo      == <<"f","o","o",NL>>
L_ret_x    == <<"r","e","t","_","x",NL>>
L_const    == <<"$","5",NL>>
L_text     == <<".","t","e","x","t",NL>>

MnemonicLines == {L_nop, L_ret, L_retq, L_leave, L_leaveq, L_syscall}
SymbolLines   == {L_lab_a, L_lab_st, L_glo_a, L_glo_st}
ErrorLines    == {L_foo, L_ret_x, L_const, L_text}
BodyLines     == MnemonicLines \cup SymbolLines \cup ErrorLines
FinalLines    == {L_retq_eof}       \* lines without a newline: last only
CodeLines     == {L_nop, L_syscall}

SeqsUpTo(S, n) == UNION {[1..k -> S] : k \in 0..n}

MixedSources ==
    SeqsUpTo(BodyLines, MaxStmts)
    \cup {Append(b, f) : b \in SeqsUpTo(BodyLines, MaxStmts - 1), f \in FinalLines}

CodeSources == SeqsUpTo(CodeLines, MaxCodeStmts)

\* the lines of the lexical cases
X_blank      == <<" ","\t",NL>>
X_semi       == <<";","$","5",NL>>
X_slash      == <<" ","/","/","x",NL>>
X_slash_eof  == <<"/","/","x">>
X_nop_dollar == <<"n","o","p"," ","$","5",NL>>
X_reg        == <<"%","r",NL>>
X_two_lab    == <<"a",":"," ","b",":",NL>>
X_nop_nop    == <<"n","o","p"," ","n","o","p",NL>>
X_lab_us     == <<"x","_","1",":",NL>>

ValidLexLines == {X_blank, X_semi, X_slash, L_nop, L_lab_a, L_glo_a}
DollarLines   == {L_const, X_nop_dollar}
OddLexLines   == {X_reg, X_two_lab, X_nop_nop, X_lab_us, L_ret_x, L_text}
LexLines      == ValidLexLines \cup DollarLines \cup OddLexLines
FinalLexLines == {X_slash_eof}      \* lines without a newline: last only

LexSources ==
    SeqsUpTo(LexLines, MaxLexStmts)
    \cup {Append(b, f) : b \in SeqsUpTo(LexLines, MaxLexStmts - 1),
                         f \in FinalLexLines}

\* sources that end right after a %, a . or a /, or after a mnemonic
X_pct     == <<"%">>
X_dot     == <<".">>
X_sl      == <<"/">>
X_nop_pct == <<"n","o","p"," ","%">>
X_nop_eof == <<"n","o","p">>

EndBodyLines  == {L_nop, L_lab_a}
EndFinalLines == {X_pct, X_dot, X_sl, X_nop_pct, X_nop_eof}

EndSources ==
    {Append(b, f) : b \in SeqsUpTo(EndBodyLines, MaxEndStmts),
                    f \in EndFinalLines}

\* what the memory behind the NUL may hold: the first bytes, then OOB
Behind == {<<>>, <<NUL>>, <<"a">>}

RECURSIVE Flatten(_)
Flatten(ss) == IF ss = <<>> THEN <<>> ELSE Head(ss) \o Flatten(Tail(ss))

(***************************************************************************)
(* The heap.  A block is named by the pointer that owns it: the buffers of *)
(* obj, parse_x86_64's buff, raw_obj, and "str" n for obj->strtab[n - 1].  *)
(***************************************************************************)
Blk(kind, n) == [kind |-> kind, n |-> n]
BUFF == Blk("buff", 0)

\* p = malloc(..): a block still owned by p is lost
Malloc(h, b) ==
    IF b \in h.live THEN [h EXCEPT !.lost = h.lost + 1]
    ELSE [h EXCEPT !.live = h.live \cup {b}]

\* p = realloc(p, ..): p keeps its block, or gets one if it was NULL
Realloc(h, b) == [h EXCEPT !.live = h.live \cup {b}]

\* free(p) of a block that is not allocated is an error
Free(h, b) ==
    IF b \in h.live THEN [h EXCEPT !.live = h.live \ {b}]
    ELSE [h EXCEPT !.bad = TRUE]

\* obj->strtab[n - 1] = buff: the block changes owner
Keep(h, n) == [h EXCEPT !.live = (h.live \ {BUFF}) \cup {Blk("str", n)}]

RECURSIVE FreeStrings(_, _)
\* for (i = 0; i < n; i++) free(obj->strtab[i]);
FreeStrings(h, n) ==
    IF n = 0 THEN h ELSE Free(FreeStrings(h, n - 1), Blk("str", n))

\* the test letting an identifier pass as the end of the line
JunkAfter_IdPasses(tok) ==
    tok.type # NEWLINE /\ tok.type # ENDOFFILE /\ tok.type # ID

\* the test made on the token after an instruction or a .globl symbol
JunkAfter(tok) == tok.type # NEWLINE /\ tok.type # ENDOFFILE

\* the header with the index of .strtab as e_shstrndx
ElfHeader_Strndx5(assembly_size) ==
    [e_type |-> 1, e_machine |-> 62,
     e_shoff |-> 240 + ALIGNTO8(assembly_size),
     e_ehsize |-> SizeofEhdr, e_shentsize |-> 64, e_shnum |-> 7,
     e_shstrndx |-> 5]

\* ehdr = (Elf64_Ehdr){ ... }
ElfHeader(assembly_size) ==
    [e_type |-> 1, e_machine |-> 62,
     e_shoff |-> 240 + ALIGNTO8(assembly_size),
     e_ehsize |-> SizeofEhdr, e_shentsize |-> 64, e_shnum |-> 7,
     e_shstrndx |-> 6]

NoOut == [fd |-> "none", fwrite |-> "none"]

\* the state assemble_x86_64 starts parsing the source text of ss from
InitOf(ss, bh) ==
    /\ stmts = ss
    /\ src = Flatten(ss)
    /\ behind = bh
    /\ i = 0
    /\ token = NoToken
    /\ stmtTok = NoToken
    /\ obj = [ehdr |-> NoEhdr, assembly |-> <<>>, assembly_size |-> 0,
              syms |-> <<>>, section_count |-> 0, label_count |-> 0,
              glabel_count |-> 0, strtab |-> <<>>, strtab_count |-> 0,
              shdrs |-> <<>>, shdr_count |-> 0]
    /\ raw_obj = <<>>
    /\ raw_obj_len = 0
    /\ written = FALSE
    /\ err = NoErr
    /\ parse_rv = -1
    /\ ret = -1
    /\ heap = [live |-> {Blk("strtab", 0), Blk("shstrtab", 0)}, lost |-> 0,
               bad |-> FALSE]
    /\ out = NoOut
    /\ pc = "start"

(***************************************************************************)
(* assemble_x86_64, lines 118-123: the zeroed object and the unit.         *)
(***************************************************************************)
Init == \E ss \in MixedSources \cup CodeSources : InitOf(ss, <<>>)

default_symtabs_x86_64 ==
    /\ pc = "start"
    /\ obj' = [obj EXCEPT
            !.syms = << Sym(0, 0, 0),
                        Sym(0, ELF64_ST_INFO(STB_LOCAL, STT_SECTION), 1),
                        Sym(0, ELF64_ST_INFO(STB_LOCAL, STT_SECTION), 2),
                        Sym(0, ELF64_ST_INFO(STB_LOCAL, STT_SECTION), 3) >>,
            !.section_count = obj.section_count + 4]
    /\ heap' = Malloc(heap, Blk("syms", 0))
    /\ pc' = "parse"
    /\ UNCHANGED <<stmts, src, behind, out, i, token, stmtTok, raw_obj, raw_obj_len,
                   written, err, parse_rv, ret>>

(***************************************************************************)
(* parse_x86_64: one action per pass of the while loop, chosen by the      *)
(* token lex returns at the top of the loop.                               *)
(***************************************************************************)
\* the if-chain with the two bytes of syscall in the wrong order
InsBytes_Swapped(buff) ==
    IF buff = S_leave \/ buff = S_leaveq THEN <<201>>
    ELSE IF buff = S_nop THEN <<144>>
    ELSE IF buff = S_ret \/ buff = S_retq THEN <<195>>
    ELSE IF buff = S_syscall THEN <<5, 15>>
    ELSE <<>>

\* the if-chain of case ID: the bytes appended for buff, <<>> if unknown
InsBytes(buff) ==
    IF buff = S_leave \/ buff = S_leaveq THEN <<201>>
    ELSE IF buff = S_nop THEN <<144>>
    ELSE IF buff = S_ret \/ buff = S_retq THEN <<195>>
    ELSE IF buff = S_syscall THEN <<15, 5>>
    ELSE <<>>

\* parse_x86_64 returns rv, having printed diagnostic d (if any)
ParseReturn(rv, d) ==
    /\ parse_rv' = rv
    /\ err' = d
    /\ pc' = "parsed"

\* lex fails at the top of the loop: the while ends, return 1
parse_LexFail ==
    /\ pc = "parse"
    /\ LET r == lex(i, token)
       IN  /\ r.rv # 0
           /\ i' = r.i
           /\ token' = r.token
           /\ ParseReturn(1, r.err)
    /\ UNCHANGED <<stmts, src, behind, out, heap, stmtTok, obj, raw_obj, raw_obj_len,
                   written, ret>>

\* case ID, a known mnemonic
parse_Ins ==
    /\ pc = "parse"
    /\ LET r    == lex(i, token)
           buff == TokenText(r.token)
           r2   == lex(r.i, r.token)
       IN  /\ r.rv = 0
           /\ r.token.type = ID
           /\ InsBytes(buff) # <<>>
           /\ stmtTok' = r.token
           /\ obj' = [obj EXCEPT
                   !.assembly = obj.assembly \o InsBytes(buff),
                   !.assembly_size = obj.assembly_size + Len(InsBytes(buff))]
           /\ i' = r2.i
           /\ token' = r2.token
           \* buff is freed at FREE_BUFF_ERROR or at line 438
           /\ heap' = Free(Realloc(Malloc(heap, BUFF), Blk("assembly", 0)), BUFF)
           /\ IF r2.rv # 0
              THEN ParseReturn(1, r2.err)
              ELSE IF JunkAfter(r2.token)
              THEN ParseReturn(1, err)
              ELSE UNCHANGED <<parse_rv, err, pc>>
    /\ UNCHANGED <<stmts, src, behind, out, raw_obj, raw_obj_len, written, ret>>

\* case ID, anything else
parse_UnknownIns ==
    /\ pc = "parse"
    /\ LET r    == lex(i, token)
           buff == TokenText(r.token)
       IN  /\ r.rv = 0
           /\ r.token.type = ID
           /\ InsBytes(buff) = <<>>
           /\ stmtTok' = r.token
           /\ i' = r.i
           /\ token' = r.token
           /\ ParseReturn(1, Diag("unknown_instruction", buff))
    /\ heap' = Free(Malloc(heap, BUFF), BUFF)
    /\ UNCHANGED <<stmts, src, behind, out, obj, raw_obj, raw_obj_len, written, ret>>

\* the scan of case LABEL: 1 + the last index whose string equals buff, or 0
Available(buff) ==
    LET m == {k \in 1..(obj.label_count + obj.glabel_count) : obj.strtab[k] = buff}
    IN  IF m = {} THEN 0 ELSE CHOOSE k \in m : \A j \in m : j <= k

\* case LABEL
parse_Label ==
    /\ pc = "parse"
    /\ LET r          == lex(i, token)
           buff       == TokenText(r.token)
           syms_index == obj.section_count + obj.label_count + obj.glabel_count
           available  == Available(buff)
       IN  /\ r.rv = 0
           /\ r.token.type = LABEL
           /\ stmtTok' = r.token
           /\ i' = r.i
           /\ token' = r.token
           /\ heap' = IF available # 0
                      THEN Free(Malloc(heap, BUFF), BUFF)
                      ELSE Keep(Realloc(Realloc(Malloc(heap, BUFF), Blk("syms", 0)),
                                        Blk("strtab", 0)),
                                obj.strtab_count + 1)
           /\ IF available # 0
              THEN obj' = [obj EXCEPT
                      !.syms[obj.section_count + available].st_shndx = available]
              ELSE obj' = [obj EXCEPT
                      !.syms = SubSeq(obj.syms, 1, syms_index)
                               \o << Sym(1, ELF64_ST_INFO(STB_LOCAL, STT_NOTYPE),
                                         obj.label_count + 1) >>,
                      !.strtab = SubSeq(obj.strtab, 1, obj.strtab_count) \o <<buff>>,
                      !.strtab_count = obj.strtab_count + 1,
                      !.label_count = obj.label_count + 1]
    /\ UNCHANGED <<stmts, src, behind, out, raw_obj, raw_obj_len, written, err, parse_rv, ret, pc>>

\* case DIRECTIVE, .globl
parse_Globl ==
    /\ pc = "parse"
    /\ LET r          == lex(i, token)
           syms_index == obj.section_count + obj.label_count + obj.glabel_count
           r2         == lex(r.i, r.token)
           buff       == TokenText(r2.token)
           r3         == lex(r2.i, r2.token)
       IN  /\ r.rv = 0
           /\ r.token.type = DIRECTIVE
           /\ TokenText(r.token) = S_globl
           /\ stmtTok' = r.token
           /\ IF r2.rv # 0
              THEN /\ i' = r2.i /\ token' = r2.token /\ obj' = obj
                   /\ heap' = Free(Malloc(heap, BUFF), BUFF)
                   /\ ParseReturn(1, r2.err)
              ELSE IF r2.token.type # ID
              THEN /\ i' = r2.i /\ token' = r2.token /\ obj' = obj
                   /\ heap' = Free(Malloc(heap, BUFF), BUFF)
                   /\ ParseReturn(1, Diag("globl_expected_symbol", <<>>))
              ELSE IF r3.rv # 0
              THEN /\ i' = r3.i /\ token' = r3.token /\ obj' = obj
                   /\ heap' = Malloc(Free(Malloc(heap, BUFF), BUFF), BUFF)
                   /\ ParseReturn(1, r3.err)
              ELSE IF JunkAfter(r3.token)
              THEN /\ i' = r3.i /\ token' = r3.token /\ obj' = obj
                   /\ heap' = Malloc(Free(Malloc(heap, BUFF), BUFF), BUFF)
                   /\ ParseReturn(1, Diag("globl_junk", <<>>))
              ELSE /\ i' = r3.i /\ token' = r3.token
                   /\ heap' = Keep(Realloc(Realloc(
                                     Malloc(Free(Malloc(heap, BUFF), BUFF), BUFF),
                                     Blk("syms", 0)), Blk("strtab", 0)),
                                   obj.strtab_count + 1)
                   /\ obj' = [obj EXCEPT
                         !.syms = SubSeq(obj.syms, 1, syms_index)
                                  \o << Sym(1, ELF64_ST_INFO(STB_GLOBAL, STT_NOTYPE), 0) >>,
                         !.strtab = SubSeq(obj.strtab, 1, obj.strtab_count) \o <<buff>>,
                         !.strtab_count = obj.strtab_count + 1,
                         !.glabel_count = obj.glabel_count + 1]
                   /\ UNCHANGED <<parse_rv, err, pc>>
    /\ UNCHANGED <<stmts, src, behind, out, raw_obj, raw_obj_len, written, ret>>

\* case DIRECTIVE, anything else
parse_UnknownDirective ==
    /\ pc = "parse"
    /\ LET r    == lex(i, token)
           buff == TokenText(r.token)
       IN  /\ r.rv = 0
           /\ r.token.type = DIRECTIVE
           /\ buff # S_globl
           /\ stmtTok' = r.token
           /\ i' = r.i
           /\ token' = r.token
           /\ ParseReturn(1, Diag("unknown_pseudo_op", buff))
    /\ heap' = Free(Malloc(heap, BUFF), BUFF)
    /\ UNCHANGED <<stmts, src, behind, out, obj, raw_obj, raw_obj_len, written, ret>>

\* case ENDOFFILE
parse_EndOfFile ==
    /\ pc = "parse"
    /\ LET r == lex(i, token)
       IN  /\ r.rv = 0
           /\ r.token.type = ENDOFFILE
           /\ stmtTok' = r.token
           /\ i' = r.i
           /\ token' = r.token
           /\ ParseReturn(0, err)
    /\ heap' = Free(Malloc(heap, BUFF), BUFF)
    /\ UNCHANGED <<stmts, src, behind, out, obj, raw_obj, raw_obj_len, written, ret>>

\* default: (NEWLINE, REGISTER, ...) the token is dropped
parse_Default ==
    /\ pc = "parse"
    /\ LET r == lex(i, token)
       IN  /\ r.rv = 0
           /\ r.token.type \notin {ID, LABEL, DIRECTIVE, ENDOFFILE}
           /\ stmtTok' = r.token
           /\ i' = r.i
           /\ token' = r.token
    /\ heap' = Free(Malloc(heap, BUFF), BUFF)
    /\ UNCHANGED <<stmts, src, behind, out, obj, raw_obj, raw_obj_len, written, err,
                   parse_rv, ret, pc>>

(***************************************************************************)
(* assemble_x86_64 after parse_x86_64.                                     *)
(***************************************************************************)
\* if (parse_x86_64(&unit, &obj)) return 1;
assemble_ParseFailed ==
    /\ pc = "parsed"
    /\ parse_rv # 0
    /\ ret' = 1
    /\ pc' = "returned"
    /\ UNCHANGED <<stmts, src, behind, out, heap, i, token, stmtTok, obj, raw_obj, raw_obj_len,
                   written, err, parse_rv>>

\* ehdr = (Elf64_Ehdr){ ... }; obj.ehdr = &ehdr;
assemble_Ehdr ==
    /\ pc = "parsed"
    /\ parse_rv = 0
    /\ obj' = [obj EXCEPT !.ehdr = ElfHeader(obj.assembly_size)]
    /\ pc' = "shdrtabs"
    /\ UNCHANGED <<stmts, src, behind, out, heap, i, token, stmtTok, raw_obj, raw_obj_len,
                   written, err, parse_rv, ret>>

default_shdrtabs_x86_64 ==
    /\ pc = "shdrtabs"
    /\ LET off0 == SizeofEhdr
           shdr_null == Shdr(0, 0, 0, 0, 0, 0, 0, 0, 0)
           shdr_text == Shdr(27, SHT_PROGBITS, SHF_ALLOC + SHF_EXECINSTR,
                             off0, obj.assembly_size, 0, 0, 1, 0)
           off1 == off0 + shdr_text.sh_size
           shdr_data == Shdr(33, SHT_PROGBITS, SHF_ALLOC + SHF_WRITE,
                             off1, 0, 0, 0, 1, 0)
           off2 == off1 + shdr_data.sh_size
           shdr_bss  == Shdr(39, SHT_NOBITS, SHF_ALLOC + SHF_WRITE,
                             off2, 0, 0, 0, 1, 0)
           off3 == off2 + shdr_bss.sh_size
           off4 == IF off3 % 8 # 0 THEN off3 + (8 - (off3 % 8)) ELSE off3
           shdr_symtab == Shdr(1, SHT_SYMTAB, 0, off4, SizeofSym * 5, 5,
                               obj.section_count + obj.label_count, 8, 24)
           off5 == off4 + shdr_symtab.sh_size
           strtab_len == 1 + SumLen(obj.strtab, obj.strtab_count)
           shdr_strtab == Shdr(9, SHT_STRTAB, 0, off5, strtab_len, 0, 0, 1, 0)
           off6 == off5 + shdr_strtab.sh_size
           shdr_shstrtab == Shdr(17, SHT_STRTAB, 0, off6,
                                 Len(shstrtab) - 1 - 4, 0, 0, 1, 0)
       IN  obj' = [obj EXCEPT
               !.shdrs = <<shdr_null, shdr_text, shdr_data, shdr_bss,
                           shdr_symtab, shdr_strtab, shdr_shstrtab>>,
               !.shdr_count = obj.shdr_count + 7]
    /\ heap' = Malloc(heap, Blk("shdrs", 0))
    /\ pc' = "write"
    /\ UNCHANGED <<stmts, src, behind, out, i, token, stmtTok, raw_obj, raw_obj_len,
                   written, err, parse_rv, ret>>

(***************************************************************************)
(* write_file_x86_64.  raw_obj is kept as the sequence of the pieces       *)
(* copied into it, each with the value of raw_obj_len it was copied at.    *)
(***************************************************************************)
Buf(chunks, len) == [chunks |-> chunks, len |-> len]

\* memcpy(raw_obj + raw_obj_len, data, size); raw_obj_len += size;
Put(buf, what, data, size) ==
    Buf(Append(buf.chunks, [what |-> what, at |-> buf.len, size |-> size,
                            data |-> data]),
        buf.len + size)

RECURSIVE PutEach(_, _, _, _, _)
\* for (i = 0; i < n; i++) memcpy of the i-th record of tab, size bytes each
PutEach(buf, what, tab, n, size) ==
    IF n = 0 THEN buf
    ELSE Put(PutEach(buf, what, tab, n - 1, size), what, tab[n], size)

RECURSIVE PutStrings(_, _, _)
\* for (i = 0; i < n; i++) memcpy of tab[i] with its terminator
PutStrings(buf, tab, n) ==
    IF n = 0 THEN buf
    ELSE Put(PutStrings(buf, tab, n - 1), "str", tab[n] \o <<NUL>>,
             strlen(tab[n]) + 1)

\* padding that is left as it came from malloc
Zeros_Unset(n) == [k \in 1..n |-> 255]

Zeros(n) == [k \in 1..n |-> 0]

write_file_x86_64 ==
    /\ pc = "write"
    /\ LET syms_count == obj.section_count + obj.label_count + obj.glabel_count
           b0 == Put(Buf(<<>>, 0), "ehdr", obj.ehdr, SizeofEhdr)
           \* if (obj->assembly): non-NULL once realloc has grown it
           b1 == IF Len(obj.assembly) # 0
                 THEN Put(b0, "assembly", obj.assembly, obj.assembly_size)
                 ELSE b0
           to8 == 8 - (obj.assembly_size % 8)
           b2 == IF Len(obj.assembly) # 0 /\ obj.assembly_size % 8 # 0
                 THEN Put(b1, "pad", Zeros(to8), to8)
                 ELSE b1
           b3 == PutEach(b2, "sym", obj.syms, syms_count, SizeofSym)
           b4 == Put(b3, "str0", <<NUL>>, 1)
           b5 == PutStrings(b4, obj.strtab, obj.strtab_count)
           b6 == Put(b5, "shstrtab", SubSeq(shstrtab, 1, Len(shstrtab) - 1),
                     Len(shstrtab) - 1)
           b7 == PutEach(b6, "shdr", obj.shdrs, obj.shdr_count, SizeofShdr)
           h1 == Malloc(heap, Blk("raw_obj", 0))
           h2 == IF Len(obj.assembly) # 0 THEN Free(h1, Blk("assembly", 0)) ELSE h1
       IN  /\ raw_obj' = b7.chunks
           /\ raw_obj_len' = b7.len
           \* fd = fopen(outfile, "w") gives a stream or NULL; fwrite and
           \* fclose on NULL are undefined: the process dies there, or the
           \* calls come back and the function goes on
           /\ \E fd \in {"open", "NULL"}, undefined \in {"dies", "goes on"} :
                /\ out' = [fd |-> fd, fwrite |-> fd]
                /\ written' = (fd = "open")
                /\ IF fd = "NULL" /\ undefined = "dies"
                   THEN /\ pc' = "crashed"
                        /\ heap' = h2
                   ELSE /\ pc' = "free"
                        /\ heap' = Free(h2, Blk("raw_obj", 0))
    /\ UNCHANGED <<stmts, src, behind, i, token, stmtTok, obj, err, parse_rv, ret>>

\* the frees of lines 150-161; return 0
assemble_Return ==
    /\ pc = "free"
    /\ ret' = 0
    /\ pc' = "returned"
    /\ heap' = Free(Free(FreeStrings(Free(Free(heap, Blk("syms", 0)),
                                          Blk("shdrs", 0)),
                                     obj.strtab_count),
                         Blk("strtab", 0)),
                    Blk("shstrtab", 0))
    /\ UNCHANGED <<stmts, src, behind, out, i, token, stmtTok, obj, raw_obj, raw_obj_len,
                   written, err, parse_rv>>

Next ==
    \/ default_symtabs_x86_64
    \/ parse_LexFail
    \/ parse_Ins
    \/ parse_UnknownIns
    \/ parse_Label
    \/ parse_Globl
    \/ parse_UnknownDirective
    \/ parse_EndOfFile
    \/ parse_Default
    \/ assemble_ParseFailed
    \/ assemble_Ehdr
    \/ default_shdrtabs_x86_64
    \/ write_file_x86_64
    \/ assemble_Return

Spec == Init /\ [][Next]_vars

\* the same program on the sources of the lexical cases
InitLex ==
    \/ \E ss \in LexSources : InitOf(ss, <<>>)
    \/ \E ss \in EndSources, bh \in Behind : InitOf(ss, bh)

SpecLex == InitLex /\ [][Next]_vars

TypeOK ==
    /\ pc \in {"start", "parse", "parsed", "shdrtabs", "write", "free",
              "returned", "crashed"}
    /\ i \in 0..(Len(src) + Len(behind) + 1)
    /\ obj.strtab_count = Len(obj.strtab)
    /\ obj.strtab_count = obj.label_count + obj.glabel_count
    /\ Len(obj.syms) = obj.section_count + obj.label_count + obj.glabel_count
    /\ obj.assembly_size = Len(obj.assembly)

(***************************************************************************)
(* Vocabulary of the properties.                                           *)
(***************************************************************************)
IsPrefix(a, b) == Len(a) <= Len(b) /\ SubSeq(b, 1, Len(a)) = a

Align8(n) == 8 * ((n + 7) \div 8)

\* parse_x86_64 has returned
Parsed == pc \notin {"start", "parse"}

\* the ELF header has been built
EhdrBuilt ==
    pc \in {"shdrtabs", "write", "free", "crashed"} \/ (pc = "returned" /\ ret = 0)

\* the section headers have been built
ShdrsBuilt ==
    pc \in {"write", "free", "crashed"} \/ (pc = "returned" /\ ret = 0)

\* the pieces of the output file of one kind, in file order
ChunksOf(what) == SelectSeq(raw_obj, LAMBDA c : c.what = what)

\* the file offset of the first piece of a kind
FirstAt(what) == ChunksOf(what)[1].at

\* the symbols of the output file, in file order
EmittedSyms == [k \in 1..Len(ChunksOf("sym")) |-> ChunksOf("sym")[k].data]

RECURSIVE ConcatData(_)
ConcatData(cs) == IF cs = <<>> THEN <<>> ELSE Head(cs).data \o ConcatData(Tail(cs))

\* the bytes the output file holds for .strtab
EmittedStrtab ==
    ConcatData(SelectSeq(raw_obj, LAMBDA c : c.what \in {"str0", "str"}))

\* the instruction table of the specification (section 4.3)
DocBytes(line) ==
    CASE line = L_nop -> <<144>>
      [] line \in {L_ret, L_retq, L_retq_eof} -> <<195>>
      [] line \in {L_leave, L_leaveq} -> <<201>>
      [] line = L_syscall -> <<15, 5>>
      [] OTHER -> <<>>

RECURSIVE ExpectedCode(_)
ExpectedCode(ss) ==
    IF ss = <<>> THEN <<>> ELSE DocBytes(Head(ss)) \o ExpectedCode(Tail(ss))

\* every statement of the source is a supported zero-operand mnemonic
MnemonicSource ==
    \A k \in 1..Len(stmts) :
        \/ stmts[k] \in MnemonicLines
        \/ k = Len(stmts) /\ stmts[k] \in FinalLines

\* the name a line declares
S_a      == <<"a">>
S__start == <<"_","s","t","a","r","t">>
NameOf(line) == IF line \in {L_lab_a, L_glo_a} THEN S_a ELSE S__start

RECURSIVE DeclaredNames(_)
\* the distinct names of the label and .globl lines, by first occurrence
DeclaredNames(ss) ==
    IF ss = <<>> THEN <<>>
    ELSE LET before == DeclaredNames(SubSeq(ss, 1, Len(ss) - 1))
             l      == ss[Len(ss)]
         IN  IF l \in SymbolLines /\ \A k \in 1..Len(before) : before[k] # NameOf(l)
             THEN Append(before, NameOf(l))
             ELSE before

RECURSIVE Terminated(_)
Terminated(names) ==
    IF names = <<>> THEN <<>> ELSE Head(names) \o <<NUL>> \o Terminated(Tail(names))

\* the names declared by two or more label lines
TwiceDeclared ==
    {NameOf(stmts[k]) : k \in {j \in 1..Len(stmts) :
        /\ stmts[j] \in {L_lab_a, L_lab_st}
        /\ \E h \in 1..Len(stmts) : h # j /\ stmts[h] = stmts[j]}}

RECURSIVE IdentEnd(_)
IdentEnd(k) == IF isalnum(CharAt(k)) \/ CharAt(k) = "_" THEN IdentEnd(k + 1) ELSE k

\* the identifier [A-Za-z_][A-Za-z0-9_]* of the grammar that starts at k
GrammarIdent(k) == [n \in 1..(IdentEnd(k) - k) |-> CharAt(k + n - 1)]

Mnemonics == {S_nop, S_ret, S_retq, S_leave, S_leaveq, S_syscall}

(***************************************************************************)
(* Properties.                                                             *)
(***************************************************************************)

\* C1: a source of supported zero-operand mnemonics only, each followed by
\* a newline or the end of file, parses successfully and the code buffer is
\* the documented bytes in source order (a prefix of them while parsing);
\* no step changes a byte already in the buffer.
C1_MnemonicBytes ==
    /\ [](MnemonicSource =>
            /\ IsPrefix(obj.assembly, ExpectedCode(stmts))
            /\ (Parsed => parse_rv = 0 /\ obj.assembly = ExpectedCode(stmts)))
    /\ [][IsPrefix(obj.assembly, obj.assembly')]_vars

C1_Witness ==
    /\ pc = "returned" /\ ret = 0
    /\ Len(stmts) = 3
    /\ stmts[1] = L_syscall /\ stmts[2] = L_leaveq /\ stmts[3] = L_retq_eof
    /\ obj.assembly = <<15, 5, 201, 195>>

\* C2 (as claimed): the section header table is written at file offset
\* e_shoff.
C2_ShoffIsWhereHeadersAre ==
    written => FirstAt("shdr") = obj.ehdr.e_shoff

C4_SymtabEntryCount ==
    written =>
        /\ obj.shdrs[5].sh_size \div obj.shdrs[5].sh_entsize
              = 4 + obj.label_count + obj.glabel_count
        /\ obj.shdrs[5].sh_size \div obj.shdrs[5].sh_entsize
              = Len(EmittedSyms)

\* C5 (as claimed): sh_offset of .text, .symtab, .strtab and .shstrtab is
\* the file offset at which the section's contents are written.
C5_OffsetsAreWritePositions ==
    written =>
        /\ obj.shdrs[2].sh_offset = raw_obj[1].at + raw_obj[1].size
        /\ obj.shdrs[5].sh_offset = FirstAt("sym")
        /\ obj.shdrs[6].sh_offset = FirstAt("str0")
        /\ obj.shdrs[7].sh_offset = FirstAt("shstrtab")

\* C6 (as claimed): in the emitted symbol array every Local symbol comes
\* before every Global symbol.
C6_LocalsBeforeGlobals ==
    written =>
        \A a, b \in 1..Len(EmittedSyms) :
            (/\ ELF64_ST_BIND(EmittedSyms[a].st_info) = STB_GLOBAL
             /\ ELF64_ST_BIND(EmittedSyms[b].st_info) = STB_LOCAL) => b < a

\* C7 (as claimed): once a label declaration has been processed, the symbol
\* of that name has section index 1 (.text).
C7_LabelInText ==
    (pc = "parse" /\ stmtTok.type = LABEL) =>
        \E k \in 1..obj.strtab_count :
            /\ obj.strtab[k] = TokenText(stmtTok)
            /\ obj.syms[obj.section_count + k].st_shndx = 1

\* C8 (as claimed): the emitted .strtab is a NUL followed by each distinct
\* declared name once, NUL-terminated, in order of first occurrence.
C8_StrtabDistinctNames ==
    written => EmittedStrtab = <<NUL>> \o Terminated(DeclaredNames(stmts))

\* C9 (as claimed): a name declared by two label declarations has exactly
\* one symbol and exactly one string.
C9_TwiceDeclaredOnce ==
    (Parsed /\ parse_rv = 0) =>
        \A n \in TwiceDeclared :
            Cardinality({k \in 1..obj.strtab_count : obj.strtab[k] = n}) = 1

\* C10 (as claimed): a statement that is an identifier other than a
\* supported mnemonic ends the run with 1, with the unknown-instruction
\* diagnostic naming that identifier, and nothing written.
C10_UnknownMnemonic ==
    (/\ pc = "returned"
     /\ stmtTok.type = ID
     /\ GrammarIdent(stmtTok.start) \notin Mnemonics) =>
        /\ parse_rv # 0 /\ ret = 1
        /\ err = Diag("unknown_instruction", GrammarIdent(stmtTok.start))
        /\ ~written


\* the characters of the source text
SrcChars == {src[k] : k \in 1..Len(src)}

\* every line is a valid statement, blank or a comment, or has a `$`
DollarAmongValid ==
    /\ "$" \in SrcChars
    /\ \A k \in 1..Len(stmts) :
           stmts[k] \in ValidLexLines \cup DollarLines \cup FinalLexLines

\* the first line that is not valid has a `$` outside a comment
DollarTokenFirst ==
    \E k \in 1..Len(stmts) :
        /\ stmts[k] \in DollarLines
        /\ \A j \in 1..(k - 1) : stmts[j] \in ValidLexLines

MalformedLines == {X_reg, X_two_lab, X_nop_nop, L_text, L_const, X_nop_dollar}

\* the index of the first malformed line, 0 if there is none
FirstMalformed ==
    LET bad == {k \in 1..Len(stmts) : stmts[k] \in MalformedLines}
    IN  IF bad = {} THEN 0 ELSE CHOOSE k \in bad : \A j \in bad : k <= j

\* C12 (as claimed): a statement that does not match the grammar makes
\* parse_x86_64 return failure, and no later statement is processed (the
\* cursor stays within the malformed line).
C12_MalformedIsFatal ==
    (/\ Parsed
     /\ FirstMalformed # 0
     /\ \A j \in 1..(FirstMalformed - 1) : stmts[j] \in ValidLexLines) =>
        /\ parse_rv # 0
        /\ i <= Len(Flatten(SubSeq(stmts, 1, FirstMalformed)))


\* C13 (as claimed): when fopen gives a null handle the run is a fatal
\* error: nothing is written through the handle, and assemble_x86_64
\* returns 1, never 0.
C13_NullHandleIsFatal ==
    out.fd = "NULL" =>
        /\ out.fwrite # "NULL"
        /\ pc # "crashed"
        /\ (pc = "returned" => ret = 1)

\* C14 (as claimed): when assemble_x86_64 returns, with success or after
\* any error, every block the run allocated has been freed, exactly once.
C14_AllFreedAtReturn ==
    pc = "returned" =>
        /\ heap.live = {}
        /\ heap.lost = 0
        /\ ~heap.bad


\* the source is blanks, comments and newlines only
BlankSource ==
    \A k \in 1..Len(stmts) :
        stmts[k] \in {X_blank, X_semi, X_slash} \cup FinalLexLines

\* C15: a source of blanks, ; and // comments and newlines only (the empty
\* source included) parses successfully, the run returns 0, the code buffer
\* stays empty and the .text header has sh_size 0.
C15_BlankSourceAssembles ==
    BlankSource =>
        /\ obj.assembly = <<>> /\ obj.assembly_size = 0
        /\ (Parsed => parse_rv = 0)
        /\ (pc = "returned" => ret = 0)
        /\ (ShdrsBuilt => obj.shdrs[2].sh_size = 0)

C15_Witness ==
    /\ pc = "returned" /\ ret = 0 /\ written
    /\ stmts = <<X_blank, X_semi, X_slash_eof>>
    /\ obj.shdrs[2].sh_size = 0

\* the padding bytes of the output file
PadBytes == ConcatData(ChunksOf("pad"))

\* C16: in a written file .text has sh_offset sizeof(Elf64_Ehdr) and
\* sh_size the length of the code; the code is followed by zero bytes up to
\* the next multiple of 8, where the symbols start, and that position is
\* the sh_offset of .symtab.
C16_TextAndPadding ==
    written =>
        /\ obj.shdrs[2].sh_offset = SizeofEhdr
        /\ obj.shdrs[2].sh_size = Len(obj.assembly)
        /\ (Len(obj.assembly) # 0 =>
               /\ FirstAt("assembly") = SizeofEhdr
               /\ ChunksOf("assembly")[1].data = obj.assembly)
        /\ FirstAt("sym") = Align8(SizeofEhdr + Len(obj.assembly))
        /\ Len(PadBytes) = FirstAt("sym") - (SizeofEhdr + Len(obj.assembly))
        /\ \A k \in 1..Len(PadBytes) : PadBytes[k] = 0
        /\ obj.shdrs[5].sh_offset = FirstAt("sym")

C16_Witness ==
    /\ written /\ pc = "returned"
    /\ Len(obj.assembly) = 9
    /\ Len(PadBytes) = 7
    /\ obj.shdrs[5].sh_offset = 80

\* the emitted symbols with Local binding
EmittedLocals ==
    {k \in 1..Len(EmittedSyms) :
        ELF64_ST_BIND(EmittedSyms[k].st_info) = STB_LOCAL}

\* C17: in a written file sh_info of .symtab is the number of emitted
\* symbols with Local binding, the 4 section symbols and those created by
\* label declarations; the symbols created by .globl are not counted.
C17_InfoCountsLocals ==
    written =>
        /\ obj.shdrs[5].sh_info = Cardinality(EmittedLocals)
        /\ obj.shdrs[5].sh_info = 4 + obj.label_count
        /\ obj.shdrs[5].sh_info = Len(EmittedSyms) - obj.glabel_count

C17_Witness ==
    /\ written /\ pc = "returned"
    /\ stmts = <<L_glo_st, L_lab_st, L_lab_a>>
    /\ obj.shdrs[5].sh_info = 5
    /\ Len(EmittedSyms) = 6

RECURSIVE NameEnd(_)
NameEnd(k) == IF shstrtab[k] = NUL THEN k ELSE NameEnd(k + 1)

\* the string at offset off of shstrtab
NameAt(off) == SubSeq(shstrtab, off + 1, NameEnd(off + 1) - 1)

\* the names of the section headers, in header order
SectionNames == [k \in 1..Len(obj.shdrs) |-> NameAt(obj.shdrs[k].sh_name)]

\* C18 (as claimed): e_shstrndx is 5.
C18_Shstrndx5 ==
    EhdrBuilt => obj.ehdr.e_shstrndx = 5

\* C18 (amended): e_shstrndx is 6, the zero-based index of the .shstrtab
\* header in the order null, .text, .data, .bss, .symtab, .strtab,
\* .shstrtab.
C18_Shstrndx6 ==
    ShdrsBuilt =>
        /\ obj.ehdr.e_shstrndx = 6
        /\ SectionNames = << <<>>, <<".","t","e","x","t">>, <<".","d","a","t","a">>,
                             <<".","b","s","s">>, <<".","s","y","m","t","a","b">>,
                             <<".","s","t","r","t","a","b">>,
                             <<".","s","h","s","t","r","t","a","b">> >>
        /\ SectionNames[obj.ehdr.e_shstrndx + 1]
              = <<".","s","h","s","t","r","t","a","b">>
        /\ obj.shdrs[obj.ehdr.e_shstrndx + 1].sh_type = SHT_STRTAB

C18_Witness ==
    /\ written /\ pc = "returned" /\ ret = 0
    /\ raw_obj[1].data.e_shstrndx = 6
    /\ obj.label_count = 1

\* the first character after the statement's token that is not blank or
\* in a comment
AfterStmtTok == CharAt(skip_comments(SkipBlank(stmtTok.start + stmtTok.len)))

\* the last n elements of a sequence
LastOf(q, n) == SubSeq(q, Len(q) - n + 1, Len(q))

\* C19: when a supported mnemonic is followed by anything but a newline or
\* the end of file, parse_x86_64 returns failure with the mnemonic's bytes
\* already appended, the run returns 1 and nothing is written.
C19_JunkAfterMnemonic ==
    (/\ stmtTok.type = ID
     /\ TokenText(stmtTok) \in Mnemonics
     /\ AfterStmtTok \notin {NL, NUL}) =>
        /\ pc \in {"parsed", "returned"}
        /\ parse_rv = 1
        /\ (pc = "returned" => ret = 1)
        /\ ~written /\ raw_obj = <<>>
        /\ Len(obj.assembly) >= Len(InsBytes(TokenText(stmtTok)))
        /\ LastOf(obj.assembly, Len(InsBytes(TokenText(stmtTok))))
              = InsBytes(TokenText(stmtTok))

C19_Witness ==
    /\ pc = "returned" /\ ret = 1
    /\ stmts = <<L_nop, X_nop_nop>>
    /\ obj.assembly = <<144, 144>>
    /\ ~written

\* C20 (as claimed): the token lexed at an identifier start character has
\* the maximal run [A-Za-z_][A-Za-z0-9_]* as its text, and is a Label
\* exactly when that run is followed by `:`.
C20_IdentifierIsMaximalRun ==
    (/\ stmtTok.type \in {ID, LABEL, DIRECTIVE}
     /\ (isalpha(CharAt(stmtTok.start)) \/ CharAt(stmtTok.start) = "_")) =>
        /\ TokenText(stmtTok) = GrammarIdent(stmtTok.start)
        /\ (stmtTok.type = LABEL <=> CharAt(IdentEnd(stmtTok.start)) = ":")
        /\ stmtTok.type # DIRECTIVE


\* a call of lex after an EndOfFile token returns that token again
EofAgain ==
    token.type = ENDOFFILE =>
        lex(i, token) = [rv |-> 0, i |-> i, token |-> token, err |-> NoErr]

\* the loop of parse_x86_64 is over once a statement starts with EndOfFile
EofEndsLoop ==
    stmtTok.type = ENDOFFILE => Parsed /\ parse_rv = 0 /\ token = stmtTok

\* the pass of the loop made after lex has returned EndOfFile
PassAfterEof ==
    (pc = "parse" /\ token.type = ENDOFFILE) =>
        /\ pc' = "parsed" /\ parse_rv' = 0
        /\ token' = token /\ stmtTok' = token /\ i' = i
        /\ obj' = obj

\* C21: once lex has returned an EndOfFile token, every later call of lex
\* returns EndOfFile again with status 0 and leaves the cursor where it is;
\* parse_x86_64 ends its loop with success on the first EndOfFile at the
\* start of a statement.
C21_EofIsSticky ==
    [](EofAgain /\ EofEndsLoop) /\ [][PassAfterEof]_vars

C21_Witness ==
    /\ pc = "returned" /\ ret = 0
    /\ stmts = <<L_lab_a, L_retq_eof>>
    /\ stmtTok.type = ENDOFFILE /\ token = stmtTok
    /\ i = Len(src)
    /\ obj.assembly = <<195>>


\* the string the emitted .strtab holds at byte offset off, with its NUL
StrtabAt(off, n) == SubSeq(EmittedStrtab, off + 1, off + n + 1)

\* C22 (as claimed): the st_name of every emitted label or global symbol is
\* the offset in the emitted .strtab where the symbol's own name begins, so
\* symbols with different names have different st_name values.
C22_NameOffsets ==
    written =>
        /\ \A k \in 1..obj.strtab_count :
              LET s == EmittedSyms[obj.section_count + k]
              IN  /\ s.st_name = 1 + SumLen(obj.strtab, k - 1)
                  /\ StrtabAt(s.st_name, strlen(obj.strtab[k]))
                        = obj.strtab[k] \o <<NUL>>
        /\ \A k, j \in 1..obj.strtab_count :
              obj.strtab[k] # obj.strtab[j] =>
                 EmittedSyms[obj.section_count + k].st_name
                    # EmittedSyms[obj.section_count + j].st_name


Max(S) == CHOOSE m \in S : \A n \in S : n <= m

\* the highest index of unit->src that a call of lex with cursor k reads:
\* the blank test, the two tests of skip_comments, the switch, and the
\* loop test of lex_id
LexReads(k) ==
    LET p == SkipBlank(k)
        q == skip_comments(p)
        c == CharAt(q)
    IN  Max({ IF CharAt(p) = "/" THEN p + 1 ELSE p,
              q,
              IF c = "%" THEN AlnumEnd(q + 2)
              ELSE IF c = "." \/ c = "_" \/ isalpha(c) THEN AlnumEnd(q + 1)
              ELSE q })

\* C23 (as claimed): while a NUL-terminated source is lexed and parsed the
\* cursor is never beyond the terminating NUL and lex reads no byte beyond
\* it, also when the source ends right after a %, a . or a /.
C23_CursorWithinSource ==
    /\ i <= Len(src)
    /\ pc = "parse" => LexReads(i) <= Len(src)


\* token next starts at or after the end of token prev
SpanOrder(prev, next) == next.start >= prev.start + prev.len

\* an EndOfFile token returned again
EofRepeat(prev, next) ==
    prev.type = ENDOFFILE /\ next.type = ENDOFFILE /\ next.start = prev.start

RECURSIVE Forward(_, _, _, _)
\* n calls of lex in a row, from cursor k with last token tok: the cursor
\* does not go back and the tokens are in span order (when strict, also an
\* EndOfFile after an EndOfFile)
Forward(k, tok, n, strict) ==
    IF n = 0 THEN TRUE
    ELSE LET r == lex(k, tok)
         IN  /\ r.i >= k
             /\ r.rv = 0 =>
                   /\ \/ SpanOrder(tok, r.token)
                      \/ ~strict /\ EofRepeat(tok, r.token)
                   /\ Forward(r.i, r.token, n - 1, strict)

\* C24 (as claimed): over any sequence of lex calls the cursor never
\* decreases and every token starts at or after the previous token's start
\* plus its length, Newline and EndOfFile tokens included.
C24_SpansInOrder ==
    /\ [](pc = "parse" => Forward(i, token, MaxLexCalls, TRUE))
    /\ [][i' >= i]_vars

\* C24 (amended): the cursor never decreases and every token starts at or
\* after the previous token's start plus its length, except that an
\* EndOfFile token returned after an EndOfFile token has the same start.
C24_SpansInOrderButEof ==
    /\ [](pc = "parse" => Forward(i, token, MaxLexCalls, FALSE))
    /\ [][i' >= i]_vars

C24_Witness ==
    /\ pc = "parse"
    /\ stmts = <<L_lab_a, X_nop_eof>>
    /\ token.type = ENDOFFILE /\ token.len = 1 /\ token.start = i
    /\ lex(i, token).token = token
    /\ lex(i, token).i = i

====
